---- MODULE Spec2Model ----
(***************************************************************************)
(* card_manager: the ledger (add_card, add_transaction, delete_card) and   *)
(* the monthly aggregation (index) of src/app.py, over the Card and        *)
(* Transaction tables.                                                     *)
(*                                                                         *)
(* Money is a Python float in the source.  The model keeps amounts and     *)
(* balances as integers (whole units), so sums are exact; float rounding   *)
(* and the special values nan/inf are outside the model.                   *)
(***************************************************************************)
EXTENDS Integers, Sequences, FiniteSets, TLC

VARIABLES
    cards,         \* table card: id -> [name, card_type, balance]
    opening,       \* id -> the balance the card was created with (history)
    transactions,  \* table transaction, in insertion order
    response,      \* what the last finished request returned
    requests       \* worker -> the add_transaction request it is serving

vars == <<cards, opening, transactions, response, requests>>

----------------------------------------------------------------------------
(* Bound of the model: the rows the transaction table may hold. *)

MaxTxns == 2

(* The primary keys the card table may hold, which are also the card ids   *)
(* a client posts.                                                         *)
CardIds == {1, 2}

(* The two request threads of the concurrent specification. *)
Workers == {"w1", "w2"}

----------------------------------------------------------------------------
(* Form values a client can post. *)

Methods == {"GET", "POST"}
Names == {"Visa"}
CardTypeForms == {"debit", "credit", "prepaid"}
BalanceForms == {"2.0", "abc"}
Descriptions == {"Lunch"}
Categories == {"Food"}

(* The transaction_type, amount and date fields of the add_transaction     *)
(* forms posted: the two kinds on either side of a month, a negative and a *)
(* zero amount, a date in a year of three digits, a kind that is neither   *)
(* income nor expense, an amount that is no number and a date that does    *)
(* not exist.                                                              *)
Form(transaction_type, amount, date) ==
    [transaction_type |-> transaction_type, amount |-> amount, date |-> date]

TransactionForms ==
    { Form("income",   "3.0", "2024-1-15"),
      Form("expense",  "5",   "2024-01-15"),
      Form("expense",  "-2",  "2024-02-01"),
      Form("income",   "0",   "0999-12-01"),
      Form("transfer", "7",   "2024-02-01"),
      Form("income",   "x",   "2024-01-15"),
      Form("expense",  "5",   "2024-02-30") }

----------------------------------------------------------------------------
(* float(text): the texts above that Python's float() accepts, and the     *)
(* value of each.  Any other text raises ValueError.                       *)

FloatTexts == {"2.0", "3.0", "5", "-2", "0", "7"}

float(text) ==
    CASE text = "2.0"  -> 2
      [] text = "3.0"  -> 3
      [] text = "5"    -> 5
      [] text = "-2"   -> -2
      [] text = "0"    -> 0
      [] text = "7"    -> 7

(* datetime.strptime(text, '%Y-%m-%d'): %m and %d take one or two digits,  *)
(* and a day the month does not have raises ValueError.                    *)

DateTexts == {"2024-01-15", "2024-1-15", "2024-02-01", "0999-12-01"}

strptime(text) ==
    CASE text = "2024-01-15" -> [year |-> 2024, month |-> 1, day |-> 15]
      [] text = "2024-1-15"  -> [year |-> 2024, month |-> 1, day |-> 15]
      [] text = "2024-02-01" -> [year |-> 2024, month |-> 2, day |-> 1]
      [] text = "0999-12-01" -> [year |-> 999, month |-> 12, day |-> 1]

(* A conversion that takes a text that is no number as 0. *)
amount_of_coerced(text) ==
    [raised |-> FALSE, value |-> IF text \in FloatTexts THEN float(text) ELSE 0]

(* A conversion that refuses the amounts that are not positive. *)
amount_of_positive_only(text) ==
    IF text \in FloatTexts /\ float(text) > 0
    THEN [raised |-> FALSE, value |-> float(text)]
    ELSE [raised |-> TRUE, value |-> 0]

(* The outcome of the two conversions of add_transaction: whether the call *)
(* raised ValueError, and the value it gave otherwise.                     *)

amount_of(text) ==
    IF text \in FloatTexts
    THEN [raised |-> FALSE, value |-> float(text)]
    ELSE [raised |-> TRUE, value |-> 0]

date_of(text) ==
    IF text \in DateTexts
    THEN [raised |-> FALSE, value |-> strptime(text)]
    ELSE [raised |-> TRUE, value |-> [year |-> 0, month |-> 0, day |-> 0]]

(* date.strftime('%Y-%m'): a text, kept as the sequence of its character   *)
(* codes ('0' is 48, '-' is 45).  %Y gives the digits of the year, which   *)
(* the C library does not pad (datetime(999, 12, 1) gives '999-12'); %m    *)
(* gives two digits.                                                       *)

Digit(n) == 48 + (n % 10)

RECURSIVE Digits(_)
Digits(n) == IF n < 10 THEN << Digit(n) >> ELSE Digits(n \div 10) \o << Digit(n) >>

strftime_month_of_day(date) ==
    Digits(date.year) \o << 45, Digit(date.day \div 10), Digit(date.day) >>

strftime(date) ==
    Digits(date.year) \o << 45, Digit(date.month \div 10), Digit(date.month) >>

----------------------------------------------------------------------------
(* Primary keys: an INTEGER PRIMARY KEY column of SQLite takes the largest *)
(* key in the table plus one, so the key of a deleted last row is reused.  *)

Max(S) == CHOOSE x \in S : \A y \in S : y <= x

NextId(ids) == IF ids = {} THEN 1 ELSE Max(ids) + 1

(* Card(name=..., card_type=..., balance=...) *)
Card(name, card_type, balance) ==
    [name |-> name, card_type |-> card_type, balance |-> balance]

(* A constructor that crosses two columns. *)
Transaction_crossed(card_id, transaction_type, amount, description, category, date) ==
    [card_id |-> card_id, transaction_type |-> transaction_type,
     amount |-> amount, description |-> category,
     category |-> description, date |-> date]

(* Transaction(card_id=..., transaction_type=..., ...) *)
Transaction(card_id, transaction_type, amount, description, category, date) ==
    [card_id |-> card_id, transaction_type |-> transaction_type,
     amount |-> amount, description |-> description,
     category |-> category, date |-> date]

----------------------------------------------------------------------------
(* What a request returns: the route served, the HTTP status, the         *)
(* exception behind a failure and, for index, the monthly statistics it    *)
(* rendered.  Two fields are history kept for the properties: card_id, the *)
(* card a POST named or created (0 when none), and deleted, the            *)
(* transaction rows a delete_card removed.                                 *)

NoStats == << >>

Redirect(route, card_id) ==
    [route |-> route, status |-> 302, error |-> "none", card_id |-> card_id,
     deleted |-> 0, monthly_stats |-> NoStats]

Page(route, stats) ==
    [route |-> route, status |-> 200, error |-> "none", card_id |-> 0,
     deleted |-> 0, monthly_stats |-> stats]

Failure(route, status, error, card_id) ==
    [route |-> route, status |-> status, error |-> error, card_id |-> card_id,
     deleted |-> 0, monthly_stats |-> NoStats]

----------------------------------------------------------------------------
(* The ledger rule of add_transaction: the balance a card gets from one    *)
(* transaction.  Both inner else branches and the outer one are            *)
(* fall-throughs, as in the source.                                        *)

(* The rule with the credit rows signed like the debit rows. *)
update_card_balance_same_sign(card_type, transaction_type, balance, amount) ==
    IF transaction_type = "expense"
    THEN balance - amount
    ELSE balance + amount

update_card_balance(card_type, transaction_type, balance, amount) ==
    IF card_type = "debit"
    THEN IF transaction_type = "expense"
         THEN balance - amount
         ELSE balance + amount
    ELSE IF transaction_type = "expense"
         THEN balance + amount
         ELSE balance - amount

(* The unit of work add_transaction builds before it commits: the card as *)
(* loaded (the balance read), its new balance, and the new transaction     *)
(* row.                                                                    *)

unit_of_work(card_id, transaction_type, amount, description, category, date) ==
    [card_id |-> card_id,
     loaded |-> cards[card_id].balance,
     balance |-> update_card_balance(cards[card_id].card_type,
                                     transaction_type,
                                     cards[card_id].balance, amount),
     new_transaction |-> Transaction(card_id, transaction_type, amount,
                                     description, category, date)]

(* An UPDATE without its WHERE clause: every card gets the balance. *)
flush_card_every_row(db_cards, work) ==
    [c \in DOMAIN db_cards |-> [db_cards[c] EXCEPT !.balance = work.balance]]

(* The flush of the card: UPDATE card SET balance = <the value computed>   *)
(* WHERE id = <card_id>.  The session emits it only when the value differs *)
(* from the one it loaded.                                                 *)

flush_card(db_cards, work) ==
    IF work.balance # work.loaded
    THEN [db_cards EXCEPT ![work.card_id].balance = work.balance]
    ELSE db_cards

(* A commit that refuses a balance below zero. *)
db_session_commit_no_overdraft(db, work, commit_ok) ==
    IF commit_ok /\ work.balance >= 0
    THEN [cards |-> flush_card(db.cards, work),
          transactions |-> Append(db.transactions, work.new_transaction)]
    ELSE db

(* A commit whose failure is not rolled back: the UPDATE of the card has   *)
(* been flushed and stays, the INSERT is lost.                             *)
db_session_commit_no_rollback(db, work, commit_ok) ==
    [cards |-> flush_card(db.cards, work),
     transactions |-> IF commit_ok
                      THEN Append(db.transactions, work.new_transaction)
                      ELSE db.transactions]

(* db.session.commit() of that unit of work on the tables as they are at   *)
(* commit time: the flush of the card and the INSERT of the transaction,   *)
(* in one database transaction.  A commit that fails is rolled back and    *)
(* leaves the tables as they were.                                         *)

db_session_commit(db, work, commit_ok) ==
    IF commit_ok
    THEN [cards |-> flush_card(db.cards, work),
          transactions |-> Append(db.transactions, work.new_transaction)]
    ELSE db

(* db.session.delete(card) with cascade='all, delete-orphan' on            *)
(* Card.transactions: the card's transactions are deleted with it.         *)

(* A delete that leaves the card's transactions in the table. *)
(* A delete that empties the transaction table. *)
cascade_delete_all(txns, card_id) == << >>

cascade_delete_none(txns, card_id) == txns

cascade_delete(txns, card_id) ==
    SelectSeq(txns, LAMBDA t : t.card_id # card_id)

Remove(f, key) == [k \in DOMAIN f \ {key} |-> f[k]]

----------------------------------------------------------------------------
(* The aggregation of index(). *)

EmptyStats == [income |-> 0, expenses |-> 0, savings |-> 0]

(* for transaction in transactions: ... (the first loop) *)
RECURSIVE monthly_stats_loop(_, _)
monthly_stats_loop(stats, txns) ==
    IF txns = << >>
    THEN stats
    ELSE LET transaction == Head(txns)
             month_key == strftime(transaction.date)
             started == IF month_key \in DOMAIN stats
                        THEN stats
                        ELSE stats @@ (month_key :> EmptyStats)
             counted == IF transaction.transaction_type = "income"
                        THEN [started EXCEPT
                                ![month_key].income = @ + transaction.amount]
                        ELSE [started EXCEPT
                                ![month_key].expenses = @ + transaction.amount]
         IN  monthly_stats_loop(counted, Tail(txns))

(* for month in monthly_stats: savings = income - expenses *)
calculate_savings(stats) ==
    [month \in DOMAIN stats |->
        [stats[month] EXCEPT !.savings = stats[month].income - stats[month].expenses]]

(* Python's order on str: by character code, a proper prefix first. *)
RECURSIVE str_less(_, _)
str_less(a, b) ==
    IF b = << >> THEN FALSE
    ELSE IF a = << >> THEN TRUE
    ELSE IF Head(a) # Head(b) THEN Head(a) < Head(b)
    ELSE str_less(Tail(a), Tail(b))

(* sorted(monthly_stats.items(), reverse=True): the keys are distinct, so  *)
(* the items are ordered by key alone.                                     *)
RECURSIVE sorted_reverse(_)
sorted_reverse(stats) ==
    IF DOMAIN stats = {}
    THEN << >>
    ELSE LET top == CHOOSE k \in DOMAIN stats :
                        \A other \in DOMAIN stats \ {k} : str_less(other, k)
         IN  << <<top, stats[top]>> >> \o sorted_reverse(Remove(stats, top))

monthly_stats(txns) ==
    sorted_reverse(calculate_savings(monthly_stats_loop(<< >>, txns)))

----------------------------------------------------------------------------
(* State after construction: db.create_all() on an empty database, no      *)
(* request served yet.                                                     *)

Idle == << >>

Init ==
    /\ cards = << >>
    /\ opening = << >>
    /\ transactions = << >>
    /\ response = Failure("none", 0, "none", 0)
    /\ requests = [w \in Workers |-> Idle]

database == [cards |-> cards, transactions |-> transactions]

----------------------------------------------------------------------------
(* An index that empties the transaction table once it has read it. *)
index_clearing ==
    /\ response' = Page("index", monthly_stats(transactions))
    /\ transactions' = << >>
    /\ UNCHANGED <<cards, opening, requests>>

(* GET / *)

index ==
    /\ response' = Page("index", monthly_stats(transactions))
    /\ UNCHANGED <<cards, opening, transactions, requests>>

(* GET and POST /add_card *)

add_card(method, name, card_type, balance_text, commit_ok) ==
    /\ \/ /\ method = "GET"
          /\ response' = Page("add_card", NoStats)
          /\ UNCHANGED <<cards, opening>>
       \/ /\ method = "POST"
          /\ balance_text \notin FloatTexts
          /\ response' = Failure("add_card", 500, "ValueError", 0)
          /\ UNCHANGED <<cards, opening>>
       \/ /\ method = "POST"
          /\ balance_text \in FloatTexts
          /\ NextId(DOMAIN cards) \in CardIds
          /\ LET new_card == Card(name, card_type, float(balance_text))
                 id == NextId(DOMAIN cards)
             IN  IF commit_ok
                 THEN /\ cards' = cards @@ (id :> new_card)
                      /\ opening' = Remove(opening, id) @@ (id :> new_card.balance)
                      /\ response' = Redirect("add_card", id)
                 ELSE /\ UNCHANGED <<cards, opening>>
                      /\ response' = Failure("add_card", 500, "StorageFailure", 0)
    /\ UNCHANGED <<transactions, requests>>

(* GET and POST /add_transaction, served without interruption *)

add_transaction(method, card_id, transaction_type, amount_text, description, category, date_text, commit_ok) ==
    /\ \/ /\ method = "GET"
          /\ response' = Page("add_transaction", NoStats)
          /\ UNCHANGED <<cards, transactions>>
       \/ /\ method = "POST"
          /\ amount_of(amount_text).raised
          /\ response' = Failure("add_transaction", 500, "ValueError", card_id)
          /\ UNCHANGED <<cards, transactions>>
       \/ /\ method = "POST"
          /\ ~amount_of(amount_text).raised
          /\ date_of(date_text).raised
          /\ response' = Failure("add_transaction", 500, "ValueError", card_id)
          /\ UNCHANGED <<cards, transactions>>
       \/ /\ method = "POST"
          /\ ~amount_of(amount_text).raised
          /\ ~date_of(date_text).raised
          /\ card_id \notin DOMAIN cards
          \* Card.query.get gives None, and None.card_type raises
          /\ response' = Failure("add_transaction", 500, "AttributeError", card_id)
          /\ UNCHANGED <<cards, transactions>>
       \/ /\ method = "POST"
          /\ ~amount_of(amount_text).raised
          /\ ~date_of(date_text).raised
          /\ card_id \in DOMAIN cards
          /\ Len(transactions) < MaxTxns
          /\ LET work == unit_of_work(card_id, transaction_type,
                                      amount_of(amount_text).value,
                                      description, category,
                                      date_of(date_text).value)
                 after == db_session_commit(database, work, commit_ok)
             IN  /\ cards' = after.cards
                 /\ transactions' = after.transactions
                 /\ response' = IF commit_ok
                                THEN Redirect("add_transaction", card_id)
                                ELSE Failure("add_transaction", 500,
                                             "StorageFailure", card_id)
    /\ UNCHANGED <<opening, requests>>

(* GET /transactions: the list of all transactions, rendered *)

transactions_route ==
    /\ response' = Page("transactions", NoStats)
    /\ UNCHANGED <<cards, opening, transactions, requests>>

(* POST /delete_card/<card_id> *)

delete_card(card_id, commit_ok) ==
    /\ \/ /\ card_id \notin DOMAIN cards
          /\ response' = Failure("delete_card", 404, "NotFound", card_id)
          /\ UNCHANGED <<cards, opening, transactions>>
       \/ /\ card_id \in DOMAIN cards
          /\ IF commit_ok
             THEN /\ cards' = Remove(cards, card_id)
                  /\ opening' = Remove(opening, card_id)
                  /\ transactions' = cascade_delete(transactions, card_id)
                  /\ response' = [Redirect("delete_card", card_id) EXCEPT
                         !.deleted = Len(transactions)
                                     - Len(cascade_delete(transactions, card_id))]
             ELSE /\ UNCHANGED <<cards, opening, transactions>>
                  /\ response' = Failure("delete_card", 500, "StorageFailure", card_id)
    /\ UNCHANGED requests

----------------------------------------------------------------------------
(* What a request carries.  A GET carries no form: its fields are empty,   *)
(* it names no card and it commits nothing.                                *)

Sent(method, fields) == IF method = "POST" THEN fields ELSE {""}

FormsSent(method, forms) ==
    IF method = "POST" THEN forms ELSE {Form("", "", "")}

CardIdsSent(method) == IF method = "POST" THEN CardIds ELSE {0}

Commits(method) == IF method = "POST" THEN BOOLEAN ELSE {FALSE}

----------------------------------------------------------------------------
(* Requests served one at a time. *)

Next ==
    \/ index
    \/ transactions_route
    \/ \E method \in Methods :
          \E name \in Sent(method, Names),
             card_type \in Sent(method, CardTypeForms),
             balance_text \in Sent(method, BalanceForms),
             commit_ok \in Commits(method) :
             add_card(method, name, card_type, balance_text, commit_ok)
    \/ \E method \in Methods :
          \E card_id \in CardIdsSent(method),
             form \in FormsSent(method, TransactionForms),
             description \in Sent(method, Descriptions),
             category \in Sent(method, Categories),
             commit_ok \in Commits(method) :
             add_transaction(method, card_id, form.transaction_type,
                             form.amount, description, category, form.date,
                             commit_ok)
    \/ \E card_id \in CardIds, commit_ok \in BOOLEAN :
          delete_card(card_id, commit_ok)

Spec == Init /\ [][Next]_vars

----------------------------------------------------------------------------
(* Requests served by two threads, each with its own session.  A POST      *)
(* /add_transaction is then two steps: the thread loads the card and       *)
(* builds its unit of work from the balance it read (lines 85-115), and    *)
(* later commits it (lines 117-120); the other thread may run in between.  *)
(* Cards are created as above; delete_card and index are left to the       *)
(* specification of requests served one at a time.  Next to its unit of    *)
(* work a request in flight keeps, as history, the cards the other thread  *)
(* has committed to since it loaded.                                       *)

(* The forms the two threads post: an income, an expense, an amount of 0   *)
(* (for which the session emits no UPDATE), and the two malformed ones.     *)
ConcurrentForms ==
    { form \in TransactionForms :
        /\ form.transaction_type \in {"income", "expense"}
        /\ form.amount \in {"3.0", "5", "0", "x"} }

InFlight == {w \in Workers : requests[w] # Idle}

add_transaction_load(w, card_id, transaction_type, amount_text, description, category, date_text) ==
    /\ requests[w] = Idle
    /\ \/ /\ amount_of(amount_text).raised
          /\ response' = Failure("add_transaction", 500, "ValueError", card_id)
          /\ UNCHANGED requests
       \/ /\ ~amount_of(amount_text).raised
          /\ date_of(date_text).raised
          /\ response' = Failure("add_transaction", 500, "ValueError", card_id)
          /\ UNCHANGED requests
       \/ /\ ~amount_of(amount_text).raised
          /\ ~date_of(date_text).raised
          /\ card_id \notin DOMAIN cards
          /\ response' = Failure("add_transaction", 500, "AttributeError", card_id)
          /\ UNCHANGED requests
       \/ /\ ~amount_of(amount_text).raised
          /\ ~date_of(date_text).raised
          /\ card_id \in DOMAIN cards
          /\ Len(transactions) + Cardinality(InFlight) < MaxTxns
          /\ requests' = [requests EXCEPT ![w] =
                 << unit_of_work(card_id, transaction_type,
                                 amount_of(amount_text).value, description,
                                 category, date_of(date_text).value),
                    {} >>]
          /\ UNCHANGED response
    /\ UNCHANGED <<cards, opening, transactions>>

add_transaction_commit(w, commit_ok) ==
    /\ requests[w] # Idle
    /\ LET after == db_session_commit(database, requests[w][1], commit_ok)
       IN  /\ cards' = after.cards
           /\ transactions' = after.transactions
    /\ response' = IF commit_ok
                   THEN Redirect("add_transaction", requests[w][1].card_id)
                   ELSE Failure("add_transaction", 500, "StorageFailure",
                                requests[w][1].card_id)
    /\ requests' = [v \in Workers |->
                        IF v = w \/ requests[v] = Idle THEN Idle
                        ELSE IF commit_ok
                        THEN << requests[v][1],
                                requests[v][2] \cup {requests[w][1].card_id} >>
                        ELSE requests[v]]
    /\ UNCHANGED opening

NextConcurrent ==
    \/ \E method \in Methods :
          \E name \in Sent(method, Names),
             card_type \in Sent(method, CardTypeForms),
             balance_text \in Sent(method, BalanceForms),
             commit_ok \in Commits(method) :
             add_card(method, name, card_type, balance_text, commit_ok)
    \/ \E w \in Workers, card_id \in CardIds, form \in ConcurrentForms,
          description \in Descriptions, category \in Categories :
          add_transaction_load(w, card_id, form.transaction_type, form.amount,
                               description, category, form.date)
    \/ \E w \in Workers, commit_ok \in BOOLEAN :
          add_transaction_commit(w, commit_ok)

SpecConcurrent == Init /\ [][NextConcurrent]_vars

----------------------------------------------------------------------------
(* Vocabulary of the properties. *)

RECURSIVE SumAmounts(_)
SumAmounts(txns) ==
    IF txns = << >> THEN 0 ELSE Head(txns).amount + SumAmounts(Tail(txns))

OwnedBy(txns, card_id) == SelectSeq(txns, LAMBDA t : t.card_id = card_id)

OfKind(txns, kind) == SelectSeq(txns, LAMBDA t : t.transaction_type = kind)

Last(seq) == seq[Len(seq)]

(* The sign table of the specification: four rows, keyed by the kind of    *)
(* the card and the kind of the transaction.                               *)
InSignTable(card_kind, kind) ==
    card_kind \in {"debit", "credit"} /\ kind \in {"income", "expense"}

SignTableDelta(card_kind, kind, amount) ==
    CASE card_kind = "debit"  /\ kind = "expense" -> 0 - amount
      [] card_kind = "debit"  /\ kind = "income"  -> amount
      [] card_kind = "credit" /\ kind = "expense" -> amount
      [] card_kind = "credit" /\ kind = "income"  -> 0 - amount

(* The sum, in recording order, of the sign-table deltas of a card's       *)
(* transactions; a transaction the table has no row for has no delta.      *)
RECURSIVE SignTableFold(_, _)
SignTableFold(card_kind, txns) ==
    IF txns = << >>
    THEN 0
    ELSE (IF InSignTable(card_kind, Head(txns).transaction_type)
          THEN SignTableDelta(card_kind, Head(txns).transaction_type,
                              Head(txns).amount)
          ELSE 0)
         + SignTableFold(card_kind, Tail(txns))

(* A step in which POST /add_transaction recorded a transaction. *)
Recorded ==
    /\ response'.route = "add_transaction"
    /\ response'.status = 302
    /\ transactions' = Append(transactions, Last(transactions'))

----------------------------------------------------------------------------
(* C1. Balance fold invariant: every card's balance is the balance it was  *)
(* created with plus the sum, in recording order, of the sign-table deltas *)
(* of the transactions recorded against it.                                *)
BalanceFoldInvariant ==
    \A c \in DOMAIN cards :
        cards[c].balance =
            opening[c] + SignTableFold(cards[c].card_type,
                                       OwnedBy(transactions, c))

(* The same fold over the cards whose kind and whose transactions' kinds   *)
(* are rows of the sign table.                                             *)
BalanceFoldOnListedKinds ==
    \A c \in DOMAIN cards :
        ( /\ cards[c].card_type \in {"debit", "credit"}
          /\ \A i \in DOMAIN transactions :
                transactions[i].card_id = c =>
                    transactions[i].transaction_type \in {"income", "expense"} )
        => cards[c].balance =
              opening[c] + SignTableFold(cards[c].card_type,
                                         OwnedBy(transactions, c))

(* C2. Sign table: a recorded transaction of amount a changes the balance  *)
(* of its card by -a for (debit, expense), +a for (debit, income), +a for  *)
(* (credit, expense) and -a for (credit, income).                          *)
SignTableLaw ==
    [][ Recorded =>
          LET t == Last(transactions')
              c == t.card_id
          IN  InSignTable(cards[c].card_type, t.transaction_type) =>
                cards'[c].balance - cards[c].balance =
                    SignTableDelta(cards[c].card_type, t.transaction_type,
                                   t.amount) ]_vars

(* Both card kinds hold a transaction of a non-zero amount, an expense on  *)
(* the debit card and an income on the credit card, the last just          *)
(* recorded.                                                               *)
SignTableWitness ==
    /\ response.route = "add_transaction" /\ response.status = 302
    /\ \E i, j \in DOMAIN transactions :
          /\ cards[transactions[i].card_id].card_type = "debit"
          /\ transactions[i].transaction_type = "expense"
          /\ transactions[i].amount # 0
          /\ cards[transactions[j].card_id].card_type = "credit"
          /\ transactions[j].transaction_type = "income"
          /\ transactions[j].amount # 0

(* C5. Every stored transaction has kind income or expense (a request with *)
(* any other kind is rejected and stores nothing).                         *)
InvalidKindRejected ==
    \A i \in DOMAIN transactions :
        transactions[i].transaction_type \in {"income", "expense"}

(* C3. Atomicity of add_transaction: a request that does not succeed       *)
(* leaves both tables as they were (a failed commit included); a balance   *)
(* changes only in the step that stores a transaction of that card; and a  *)
(* step that stores a transaction changes the balance of its card, and of  *)
(* that card alone, by the amount of the transaction, up or down.          *)
AtomicRecording ==
    [][ /\ response'.status # 302 =>
              cards' = cards /\ transactions' = transactions
        /\ \A c \in DOMAIN cards \cap DOMAIN cards' :
              cards'[c].balance # cards[c].balance =>
                  /\ Len(transactions') = Len(transactions) + 1
                  /\ transactions' = Append(transactions, Last(transactions'))
                  /\ Last(transactions').card_id = c
        /\ Len(transactions') > Len(transactions) =>
              LET t == Last(transactions')
              IN  /\ transactions' = Append(transactions, t)
                  /\ t.card_id \in DOMAIN cards
                  /\ DOMAIN cards' = DOMAIN cards
                  /\ cards'[t.card_id].balance - cards[t.card_id].balance
                        \in {t.amount, 0 - t.amount}
                  /\ \A c \in DOMAIN cards \ {t.card_id} : cards'[c] = cards[c]
      ]_vars

(* The commit of an add_transaction on an existing card has just failed,   *)
(* in a store that already holds a transaction.                            *)
AtomicWitness ==
    /\ response.route = "add_transaction"
    /\ response.error = "StorageFailure"
    /\ response.card_id \in DOMAIN cards
    /\ Len(transactions) >= 1

(* The balance a card reaches when the ledger rule is applied to its       *)
(* transactions one after another.                                         *)
RECURSIVE Replay(_, _, _)
Replay(card_type, balance, txns) ==
    IF txns = << >>
    THEN balance
    ELSE Replay(card_type,
                update_card_balance(card_type, Head(txns).transaction_type,
                                    balance, Head(txns).amount),
                Tail(txns))

(* C4. Concurrent add_transaction requests on one card lose no update:     *)
(* once no request is in flight, the balance of every card is the balance  *)
(* it was created with plus the deltas of all its stored transactions.     *)
NoLostUpdate ==
    InFlight = {} =>
        \A c \in DOMAIN cards :
            cards[c].balance =
                Replay(cards[c].card_type, opening[c], OwnedBy(transactions, c))

(* C6. POST /add_transaction naming a card id that is not in the card      *)
(* table (the amount and the date being well formed) fails with NotFound   *)
(* and leaves both tables unchanged.                                       *)
UnknownCardIsNotFound ==
    [][ ( /\ response'.route = "add_transaction"
          /\ response'.card_id \in CardIds \ DOMAIN cards
          /\ response'.error # "ValueError" )
        => /\ response'.error = "NotFound"
           /\ cards' = cards
           /\ transactions' = transactions ]_vars

(* What the code does keep of C6: the request fails and changes nothing.   *)
UnknownCardChangesNothing ==
    [][ ( /\ response'.route = "add_transaction"
          /\ response'.card_id \in CardIds \ DOMAIN cards )
        => /\ response'.status = 500
           /\ cards' = cards
           /\ transactions' = transactions ]_vars

----------------------------------------------------------------------------
(* Vocabulary of the aggregation properties. *)

InMonth(txns, month_key) ==
    SelectSeq(txns, LAMBDA t : strftime(t.date) = month_key)

NotOwnedBy(txns, card_id) == SelectSeq(txns, LAMBDA t : t.card_id # card_id)

RECURSIVE SumIncome(_)
SumIncome(buckets) ==
    IF buckets = << >> THEN 0
    ELSE Head(buckets)[2].income + SumIncome(Tail(buckets))

RECURSIVE SumExpenses(_)
SumExpenses(buckets) ==
    IF buckets = << >> THEN 0
    ELSE Head(buckets)[2].expenses + SumExpenses(Tail(buckets))

OnlyListedKinds ==
    \A i \in DOMAIN transactions :
        transactions[i].transaction_type \in {"income", "expense"}

(* C7. Cascade law: after delete_card(c) the card is gone, the store holds *)
(* no transaction of c, and the monthly statistics of the store that is    *)
(* left have a bucket only for the months of the other cards' transactions *)
(* and count in each bucket the amounts of those transactions alone.       *)
CascadeLaw ==
    [][ (response'.route = "delete_card" /\ response'.status = 302) =>
          LET c == response'.card_id
              kept == NotOwnedBy(transactions, c)
              later == monthly_stats(transactions')
          IN  /\ c \notin DOMAIN cards'
              /\ \A i \in DOMAIN transactions' : transactions'[i].card_id # c
              /\ \A b \in DOMAIN later :
                    /\ InMonth(kept, later[b][1]) # << >>
                    /\ later[b][2].income + later[b][2].expenses =
                          SumAmounts(InMonth(kept, later[b][1])) ]_vars

(* A delete_card has just removed a card with its transaction, and a       *)
(* transaction of the other card is still stored.                          *)
CascadeWitness ==
    /\ response.route = "delete_card" /\ response.status = 302
    /\ response.deleted >= 1
    /\ Len(transactions) >= 1

(* C8. No orphaned transactions: every stored transaction references a     *)
(* card that is in the card table.                                         *)
NoOrphans ==
    \A i \in DOMAIN transactions : transactions[i].card_id \in DOMAIN cards

(* A delete_card has just removed a card that owned two transactions,      *)
(* while another card exists.                                              *)
NoOrphansWitness ==
    /\ response.route = "delete_card" /\ response.status = 302
    /\ response.deleted >= 2
    /\ DOMAIN cards # {}

(* C9. Monthly fold: in every bucket index returns, income is the sum of   *)
(* the amounts of the stored transactions of kind income dated in that     *)
(* month, expenses the sum of those of kind expense, and savings is income *)
(* minus expenses, whatever the kinds of the owning cards.                 *)
MonthlyFold ==
    response.route = "index" =>
        \A b \in DOMAIN response.monthly_stats :
            LET dated == InMonth(transactions, response.monthly_stats[b][1])
                stats == response.monthly_stats[b][2]
            IN  /\ stats.income = SumAmounts(OfKind(dated, "income"))
                /\ stats.expenses = SumAmounts(OfKind(dated, "expense"))
                /\ stats.savings = stats.income - stats.expenses

(* The same fold in the states whose transactions are all of kind income   *)
(* or expense.                                                             *)
MonthlyFoldOnListedKinds == OnlyListedKinds => MonthlyFold

(* C10. Aggregation sum law: the incomes of the buckets index returns add  *)
(* up to the amounts of all stored transactions of kind income, and the    *)
(* expenses of the buckets to those of kind expense.                       *)
AggregationSumLaw ==
    response.route = "index" =>
        /\ SumIncome(response.monthly_stats) =
              SumAmounts(OfKind(transactions, "income"))
        /\ SumExpenses(response.monthly_stats) =
              SumAmounts(OfKind(transactions, "expense"))

(* The same law in the states whose transactions are all of kind income or *)
(* expense.                                                                *)
AggregationSumOnListedKinds == OnlyListedKinds => AggregationSumLaw

----------------------------------------------------------------------------
(* Month keys, read back as the year and the month they name: the digits   *)
(* before the '-' and the digits after it.                                 *)

RECURSIVE Number(_)
Number(codes) ==
    IF codes = << >> THEN 0
    ELSE Number(SubSeq(codes, 1, Len(codes) - 1)) * 10 + (Last(codes) - 48)

Dash(key) == CHOOSE p \in DOMAIN key : key[p] = 45

YearMonth(key) ==
    << Number(SubSeq(key, 1, Dash(key) - 1)),
       Number(SubSeq(key, Dash(key) + 1, Len(key))) >>

MoreRecent(a, b) == a[1] > b[1] \/ (a[1] = b[1] /\ a[2] > b[2])

Keys(buckets) == { buckets[b][1] : b \in DOMAIN buckets }

(* C11. Ordering law: the buckets index returns are strictly descending by *)
(* month key, which puts the most recent month first, and no month key     *)
(* occurs twice.                                                           *)
OrderingLaw ==
    response.route = "index" =>
        LET buckets == response.monthly_stats
        IN  /\ \A b \in 1 .. Len(buckets) - 1 :
                  /\ str_less(buckets[b + 1][1], buckets[b][1])
                  /\ MoreRecent(YearMonth(buckets[b][1]),
                                YearMonth(buckets[b + 1][1]))
            /\ Cardinality(Keys(buckets)) = Len(buckets)

(* The part of the law that is about the keys as texts: strictly           *)
(* descending in the order of strings, and no key twice.                   *)
DescendingByKeyText ==
    response.route = "index" =>
        LET buckets == response.monthly_stats
        IN  /\ \A b \in 1 .. Len(buckets) - 1 :
                  str_less(buckets[b + 1][1], buckets[b][1])
            /\ Cardinality(Keys(buckets)) = Len(buckets)

(* C12. The month keys index returns name exactly the year-months of the   *)
(* dates of the stored transactions: no bucket for a month without a       *)
(* transaction, one bucket for every month with one.                       *)
MonthKeysLaw ==
    response.route = "index" =>
        LET buckets == response.monthly_stats
            months == { << transactions[i].date.year, transactions[i].date.month >> :
                        i \in DOMAIN transactions }
        IN  /\ { YearMonth(key) : key \in Keys(buckets) } = months
            /\ Len(buckets) = Cardinality(months)

(* index has answered over two transactions of one month and one bucket,   *)
(* and the store is not empty.                                             *)
MonthKeysWitness ==
    /\ response.route = "index"
    /\ Len(transactions) = 2
    /\ transactions[1].date.month = transactions[2].date.month
    /\ Len(response.monthly_stats) = 1

----------------------------------------------------------------------------
(* What a form says, read as its author wrote it: the number an amount     *)
(* text denotes and the calendar day a date text denotes.  A text outside  *)
(* the domain denotes nothing: it is malformed.                            *)

NumberWritten ==
    ("3.0" :> 3) @@ ("5" :> 5) @@ ("-2" :> 0 - 2) @@ ("0" :> 0) @@ ("7" :> 7)

DayWritten ==
    ("2024-01-15" :> [year |-> 2024, month |-> 1, day |-> 15])
    @@ ("2024-1-15" :> [year |-> 2024, month |-> 1, day |-> 15])
    @@ ("2024-02-01" :> [year |-> 2024, month |-> 2, day |-> 1])
    @@ ("0999-12-01" :> [year |-> 999, month |-> 12, day |-> 1])

WellFormed(form) ==
    form.amount \in DOMAIN NumberWritten /\ form.date \in DOMAIN DayWritten

(* The step is the POST of the form to /add_transaction for the card the   *)
(* response names, its commit succeeding or not.                           *)
Posted(form, description, category, commit_ok) ==
    add_transaction("POST", response'.card_id, form.transaction_type,
                    form.amount, description, category, form.date, commit_ok)

(* C13. Every card in the card table has kind debit or credit (add_card    *)
(* with any other kind fails and adds no card).                            *)
CardKindRejected ==
    \A c \in DOMAIN cards : cards[c].card_type \in {"debit", "credit"}

(* C14. No balance bound: a POST /add_transaction of a well-formed form of *)
(* kind income or expense on an existing debit or credit card, whose       *)
(* commit succeeds, is answered with the redirect, stores one transaction  *)
(* and moves the balance by the sign-table delta whatever the sign of the  *)
(* result; in the states with a balance below zero no transaction is an    *)
(* orphan and the balance fold over the listed kinds holds.                *)
NoBalanceBound ==
    [][ /\ response'.route = "add_transaction" =>
              \A form \in TransactionForms, description \in Descriptions,
                 category \in Categories :
                  LET c == response'.card_id
                  IN  ( /\ WellFormed(form)
                        /\ c \in DOMAIN cards
                        /\ InSignTable(cards[c].card_type, form.transaction_type)
                        /\ Posted(form, description, category, TRUE) )
                      => /\ response'.status = 302
                         /\ Len(transactions') = Len(transactions) + 1
                         /\ cards'[c].balance =
                               cards[c].balance
                               + SignTableDelta(cards[c].card_type,
                                                form.transaction_type,
                                                NumberWritten[form.amount])
        /\ (\E c \in DOMAIN cards' : cards'[c].balance < 0)
              => NoOrphans' /\ BalanceFoldOnListedKinds' ]_vars

(* A debit card is overdrawn and a credit card is overpaid, the last       *)
(* transaction just recorded.                                              *)
NoBalanceBoundWitness ==
    /\ response.route = "add_transaction" /\ response.status = 302
    /\ \E c, d \in DOMAIN cards :
          /\ cards[c].card_type = "debit"  /\ cards[c].balance < 0
          /\ cards[d].card_type = "credit" /\ cards[d].balance < 0

(* C15. Transactions are immutable and leave only by cascade: in every     *)
(* step the stored transactions whose card is still in the card table stay *)
(* in the store, in their order and with every field as it was, and a      *)
(* transaction leaves the store only in the delete_card of its own card.   *)
ImmutableUntilCascade ==
    [][ LET kept == SelectSeq(transactions,
                              LAMBDA t : t.card_id \in DOMAIN cards')
        IN  /\ Len(transactions') >= Len(kept)
            /\ SubSeq(transactions', 1, Len(kept)) = kept
            /\ kept # transactions =>
                  /\ response'.route = "delete_card"
                  /\ response'.status = 302
                  /\ response'.card_id \in DOMAIN cards
                  /\ \A i \in DOMAIN transactions :
                        transactions[i].card_id \notin DOMAIN cards' =>
                            transactions[i].card_id = response'.card_id ]_vars

(* A delete_card has just removed one transaction with its card, and the   *)
(* one stored before it for the other card is still there.                 *)
ImmutableWitness ==
    /\ response.route = "delete_card" /\ response.status = 302
    /\ response.deleted = 1
    /\ Len(transactions) = 1
    /\ transactions[1].card_id \in DOMAIN cards
    /\ transactions[1].card_id # response.card_id

(* C16. A POST /add_transaction whose amount or whose date is malformed is *)
(* answered with an error and leaves the card table and the transaction    *)
(* table as they were; the text is never taken for some other value.       *)
MalformedRejected ==
    [][ response'.route = "add_transaction" =>
          \A form \in TransactionForms, description \in Descriptions,
             category \in Categories, commit_ok \in BOOLEAN :
              ( /\ ~WellFormed(form)
                /\ Posted(form, description, category, commit_ok) )
              => /\ response'.status >= 400
                 /\ cards' = cards
                 /\ transactions' = transactions ]_vars

(* A malformed form has just been refused for a card that exists and whose *)
(* balance earlier transactions have moved.                                *)
MalformedWitness ==
    /\ response.route = "add_transaction" /\ response.error = "ValueError"
    /\ response.card_id \in DOMAIN cards
    /\ cards[response.card_id].balance # opening[response.card_id]
    /\ Len(transactions) >= 1

(* C17. A POST /add_transaction that succeeds appends exactly one          *)
(* transaction, owned by the card of the form and with the kind, amount,   *)
(* description, category and date the form gives; the card then owns one   *)
(* transaction more than before.                                           *)
ExactlyOneStored ==
    [][ (response'.route = "add_transaction" /\ response'.status = 302) =>
          \A form \in TransactionForms, description \in Descriptions,
             category \in Categories :
              LET c == response'.card_id
              IN  Posted(form, description, category, TRUE)
                  => /\ WellFormed(form)
                     /\ transactions' =
                           Append(transactions,
                                  [card_id |-> c,
                                   transaction_type |-> form.transaction_type,
                                   amount |-> NumberWritten[form.amount],
                                   description |-> description,
                                   category |-> category,
                                   date |-> DayWritten[form.date]])
                     /\ Len(OwnedBy(transactions', c)) =
                           Len(OwnedBy(transactions, c)) + 1 ]_vars

(* Two requests in a row have succeeded on a card that had no transaction: *)
(* it owns two.                                                            *)
ExactlyOneStoredWitness ==
    /\ response.route = "add_transaction" /\ response.status = 302
    /\ Len(transactions) = 2
    /\ \A i \in DOMAIN transactions : transactions[i].card_id = response.card_id

(* C18. Calls on different cards are independent: the commit of an         *)
(* add_transaction changes the balance of no card but its own, and when    *)
(* the only requests committed since it loaded its card were for other     *)
(* cards, it leaves the tables exactly as the same call served at that     *)
(* moment without interruption would.                                      *)
IndependentCards ==
    [][ \A w \in Workers :
          ( /\ requests[w] # Idle
            /\ requests'[w] = Idle
            /\ add_transaction_commit(w, TRUE) )
          => LET work == requests[w][1]
                 t == work.new_transaction
                 alone == db_session_commit(
                              database,
                              unit_of_work(t.card_id, t.transaction_type,
                                           t.amount, t.description,
                                           t.category, t.date),
                              TRUE)
             IN  /\ \A b \in DOMAIN cards \ {work.card_id} :
                       cards'[b] = cards[b]
                 /\ work.card_id \notin requests[w][2] =>
                       /\ cards' = alone.cards
                       /\ transactions' = alone.transactions ]_vars

(* A request for one card is in flight while the other thread has          *)
(* committed a transaction that moved the balance of another card.         *)
IndependentCardsWitness ==
    \E w \in Workers :
        /\ requests[w] # Idle
        /\ requests[w][2] # {}
        /\ requests[w][1].card_id \notin requests[w][2]
        /\ \E b \in requests[w][2] : cards[b].balance # opening[b]

(* C19. The monthly statistics only read: a GET / leaves the card table    *)
(* and the transaction table as they were, what it returns is the          *)
(* statistics of the store as it is, and a second GET / right after the    *)
(* first returns the same buckets.                                         *)
StatisticsOnlyRead ==
    [][ response'.route = "index" =>
          /\ cards' = cards
          /\ opening' = opening
          /\ transactions' = transactions
          /\ response'.monthly_stats = monthly_stats(transactions')
          /\ response.route = "index" =>
                response'.monthly_stats = response.monthly_stats ]_vars

(* index has answered with two buckets while two cards hold a transaction  *)
(* each.                                                                   *)
StatisticsOnlyReadWitness ==
    /\ response.route = "index"
    /\ Len(response.monthly_stats) = 2
    /\ Cardinality({ transactions[i].card_id : i \in DOMAIN transactions }) = 2

(* C20. Zero and negative amounts are accepted: a POST /add_transaction of *)
(* a well-formed form whose amount is zero or negative, on an existing     *)
(* card and with a commit that succeeds, is answered with the redirect and *)
(* stores one transaction with that amount; the balance moves by the       *)
(* sign-table delta of that amount, and not at all when the amount is 0.   *)
NonPositiveAccepted ==
    [][ response'.route = "add_transaction" =>
          \A form \in TransactionForms, description \in Descriptions,
             category \in Categories :
              LET c == response'.card_id
              IN  ( /\ WellFormed(form)
                    /\ NumberWritten[form.amount] <= 0
                    /\ c \in DOMAIN cards
                    /\ Posted(form, description, category, TRUE) )
                  => LET a == NumberWritten[form.amount]
                     IN  /\ response'.status = 302
                         /\ Len(transactions') = Len(transactions) + 1
                         /\ Last(transactions').card_id = c
                         /\ Last(transactions').amount = a
                         /\ InSignTable(cards[c].card_type, form.transaction_type)
                               => cards'[c].balance =
                                     cards[c].balance
                                     + SignTableDelta(cards[c].card_type,
                                                      form.transaction_type, a)
                         /\ a = 0 => cards'[c].balance = cards[c].balance ]_vars

(* A debit card holds an expense of -2 and a transaction of amount 0 and   *)
(* its balance is 2 above the one it was created with.                     *)
NonPositiveWitness ==
    /\ response.route = "add_transaction" /\ response.status = 302
    /\ \E c \in DOMAIN cards, i, j \in DOMAIN transactions :
          /\ cards[c].card_type = "debit"
          /\ transactions[i].card_id = c /\ transactions[j].card_id = c
          /\ transactions[i].transaction_type = "expense"
          /\ transactions[i].amount < 0
          /\ transactions[j].amount = 0
          /\ cards[c].balance = opening[c] - transactions[i].amount

----------------------------------------------------------------------------
(* The delta the income row and the expense row of the sign table give for *)
(* a card kind, and the statistics of a month in a sequence of buckets (a  *)
(* month without a bucket has counted nothing).                            *)

IncomeSign(card_kind, amount) == SignTableDelta(card_kind, "income", amount)

ExpenseSign(card_kind, amount) == SignTableDelta(card_kind, "expense", amount)

BucketOf(buckets, key) ==
    IF key \in Keys(buckets)
    THEN buckets[CHOOSE b \in DOMAIN buckets : buckets[b][1] = key][2]
    ELSE [income |-> 0, expenses |-> 0, savings |-> 0]

(* C21. The ledger and the aggregation classify a transaction alike: when  *)
(* a transaction of a non-zero amount a is recorded on a debit or credit   *)
(* card and the balance moves by the income delta of the card's kind, the  *)
(* statistics of its month count a more income and the same expenses; when *)
(* the balance moves by the expense delta, they count a more expenses and  *)
(* the same income.                                                        *)
ClassifiedAlike ==
    [][ Recorded =>
          LET t == Last(transactions')
              c == t.card_id
              kind == cards[c].card_type
              delta == cards'[c].balance - cards[c].balance
              before == BucketOf(monthly_stats(transactions), strftime(t.date))
              after == BucketOf(monthly_stats(transactions'), strftime(t.date))
          IN  (kind \in {"debit", "credit"} /\ t.amount # 0) =>
                /\ delta = IncomeSign(kind, t.amount) =>
                      /\ after.income = before.income + t.amount
                      /\ after.expenses = before.expenses
                /\ delta = ExpenseSign(kind, t.amount) =>
                      /\ after.expenses = before.expenses + t.amount
                      /\ after.income = before.income ]_vars

(* The same for the transactions of kind income or expense. *)
ClassifiedAlikeOnListedKinds ==
    [][ (Recorded /\ Last(transactions').transaction_type \in {"income", "expense"})
          => LET t == Last(transactions')
                 c == t.card_id
                 kind == cards[c].card_type
                 delta == cards'[c].balance - cards[c].balance
                 before == BucketOf(monthly_stats(transactions), strftime(t.date))
                 after == BucketOf(monthly_stats(transactions'), strftime(t.date))
             IN  (kind \in {"debit", "credit"} /\ t.amount # 0) =>
                   /\ delta = IncomeSign(kind, t.amount) =>
                         /\ after.income = before.income + t.amount
                         /\ after.expenses = before.expenses
                   /\ delta = ExpenseSign(kind, t.amount) =>
                         /\ after.expenses = before.expenses + t.amount
                         /\ after.income = before.income ]_vars

(* C22. Single mutation path: in every step, a card that exists keeps its  *)
(* name, kind, balance and transactions unless the step is a successful    *)
(* POST /add_transaction for that card or a successful delete_card of that *)
(* card; the add_transaction leaves the card's name and kind as they were  *)
(* and appends one transaction to the card's own.                          *)
SingleMutationPath ==
    [][ \A c \in DOMAIN cards :
          LET owned == OwnedBy(transactions, c)
              touched == \/ c \notin DOMAIN cards'
                         \/ cards'[c] # cards[c]
                         \/ OwnedBy(transactions', c) # owned
          IN  /\ touched =>
                    /\ response'.status = 302
                    /\ response'.card_id = c
                    /\ response'.route \in {"add_transaction", "delete_card"}
              /\ (touched /\ response'.route = "add_transaction") =>
                    /\ c \in DOMAIN cards'
                    /\ cards'[c].name = cards[c].name
                    /\ cards'[c].card_type = cards[c].card_type
                    /\ Len(transactions') = Len(transactions) + 1
                    /\ OwnedBy(transactions', c) =
                          Append(owned, Last(transactions'))
              /\ (touched /\ response'.route = "delete_card") =>
                    c \notin DOMAIN cards' ]_vars

(* A transaction has just been recorded for one card while another card,   *)
(* whose balance an earlier transaction moved, is in the card table.       *)
SingleMutationPathWitness ==
    /\ response.route = "add_transaction" /\ response.status = 302
    /\ \E d \in DOMAIN cards :
          /\ d # response.card_id
          /\ cards[d].balance # opening[d]
          /\ OwnedBy(transactions, d) # << >>
          /\ OwnedBy(transactions, response.card_id) # << >>

====
